---- MODULE Spec2Model ----
(***************************************************************************)
(* Model of package verify (src/verify/verify.go): the request builder     *)
(* requestDataForVerify, the response decoder Verify.UnmarshalJSON and     *)
(* the five operations Create, Delete, Read, VerifyToken and               *)
(* ReadVerifyEmailMessage, each one round trip through the injected        *)
(* client's Request.                                                       *)
(*                                                                         *)
(* A Go string (a recipient, an id, a token, a path, the text of a JSON     *)
(* value) is a sequence of one-character strings.  The value of a float64  *)
(* is the natural number it holds, written as a sequence of decimal        *)
(* digits, most significant first: phone numbers and 2^53 do not fit the   *)
(* integers of the model checker.  The labels of the model itself (the     *)
(* name of an operation, an HTTP method, the message of an error, the kind *)
(* of a JSON value) are plain strings.                                     *)
(***************************************************************************)
EXTENDS Integers, Sequences, FiniteSets, TLC

\* Number of concurrent invocations of the package's operations.
NumCalls == 2

(***************************************************************************)
(* Characters and decimal numbers                                          *)
(***************************************************************************)
DigitChars == <<"0", "1", "2", "3", "4", "5", "6", "7", "8", "9">>

CharOf(d) == DigitChars[d + 1]

IsDigitChar(c) == \E d \in 0..9 : DigitChars[d + 1] = c

DigitOf(c) == CHOOSE d \in 0..9 : DigitChars[d + 1] = c

\* The digits of a JSON integer literal, and back.
DigitsOf(text) == [i \in 1..Len(text) |-> DigitOf(text[i])]

CharsOf(ds) == [i \in 1..Len(ds) |-> CharOf(ds[i])]

Zeros(n) == [i \in 1..n |-> 0]

\* A digit sequence without its leading zeros (the number 0 keeps one digit).
Strip(ds) ==
    LET nz == {i \in 1..Len(ds) : ds[i] # 0}
    IN  IF nz = {} THEN <<0>>
        ELSE LET first == CHOOSE i \in nz : \A j \in nz : i <= j
             IN  SubSeq(ds, first, Len(ds))

\* a < b, for digit sequences without leading zeros.
Less(a, b) ==
    \/ Len(a) < Len(b)
    \/ /\ Len(a) = Len(b)
       /\ \E i \in 1..Len(a) : /\ a[i] < b[i]
                               /\ \A j \in 1..(i - 1) : a[j] = b[j]

\* ds \div 2, by long division, and ds % 2.
Half(ds) ==
    Strip([i \in 1..Len(ds) |->
            ((IF i > 1 THEN (ds[i - 1] % 2) * 10 ELSE 0) + ds[i]) \div 2])

Odd(ds) == ds[Len(ds)] % 2

\* 2 * ds.
Double(ds) ==
    LET carry(i) == IF i <= Len(ds) /\ ds[i] >= 5 THEN 1 ELSE 0
        low == [i \in 1..Len(ds) |-> (2 * ds[i] + carry(i + 1)) % 10]
    IN  IF carry(1) = 1 THEN <<1>> \o low ELSE low

\* ds + 1.
Inc(ds) ==
    LET not9 == {i \in 1..Len(ds) : ds[i] # 9}
    IN  IF not9 = {} THEN <<1>> \o Zeros(Len(ds))
        ELSE LET p == CHOOSE i \in not9 : \A j \in not9 : j <= i
             IN  [i \in 1..Len(ds) |->
                    IF i < p THEN ds[i] ELSE IF i = p THEN ds[i] + 1 ELSE 0]

RECURSIVE Scale(_, _)
\* m * 2^e.
Scale(m, e) == IF e = 0 THEN m ELSE Scale(Double(m), e - 1)

(***************************************************************************)
(* IEEE-754 binary floating point, restricted to non-negative integers.    *)
(* A float is represented by the exact integer it holds.                   *)
(***************************************************************************)
\* 2^24 and 2^53: the integers below them are the significands of a float32
\* and of a float64.
MantissaLimit(size) ==
    IF size = 32 THEN <<1, 6, 7, 7, 7, 2, 1, 6>>
    ELSE <<9, 0, 0, 7, 1, 9, 9, 2, 5, 4, 7, 4, 0, 9, 9, 2>>

RECURSIVE ShiftDown(_, _, _, _, _)
\* Halve m until it fits below lim, keeping the last bit shifted out (rnd)
\* and whether any earlier one was set (sticky).
ShiftDown(m, e, rnd, sticky, lim) ==
    IF Less(m, lim) THEN [m |-> m, e |-> e, rnd |-> rnd, sticky |-> sticky]
    ELSE ShiftDown(Half(m), e + 1, Odd(m), sticky \/ rnd = 1, lim)

\* The significand s.m rounded by the bits shifted out, times 2^s.e.
Rounded(s) ==
    Scale(IF s.rnd = 1 /\ (s.sticky \/ Odd(s.m) = 1) THEN Inc(s.m) ELSE s.m, s.e)

\* The float of the given size nearest to the integer ds (ties to even):
\* strconv.ParseFloat as encoding/json applies it to a number literal.
RoundToFloat(ds, size) ==
    Rounded(ShiftDown(Strip(ds), 0, 0, FALSE, MantissaLimit(size)))

\* ds rounded to its k leading decimal digits (half up), the rest zero.
RoundDec(ds, k) ==
    IF k >= Len(ds) THEN ds
    ELSE LET head == SubSeq(ds, 1, k)
             kept == IF ds[k + 1] >= 5 THEN Inc(head) ELSE head
         IN  kept \o Zeros(Len(ds) - k)

\* Whether the k leading digits of x, read as a float, give x again.
ReadsBack(x, k, size) == RoundToFloat(RoundDec(x, k), size) = x

\* The least number of leading digits that still identifies the float x.
ShortestDigits(x, size) ==
    CHOOSE k \in 1..Len(x) :
        /\ ReadsBack(x, k, size)
        /\ \A j \in 1..(k - 1) : ~ReadsBack(x, j, size)

\* ds without its trailing zeros (at least one digit is kept).
TrimRight(ds) ==
    LET nz == {i \in 1..Len(ds) : ds[i] # 0}
    IN  IF nz = {} THEN <<ds[1]>>
        ELSE SubSeq(ds, 1, CHOOSE i \in nz : \A j \in nz : j <= i)

\* Two-digit decimal exponent of the 'e' format.
ExpChars(n) == <<CharOf(n \div 10), CharOf(n % 10)>>

\* The digits FormatFloat shows of the float x: with prec = -1 the fewest that
\* read back as x.
Shown(x, prec, size) ==
    IF prec = -1 THEN RoundDec(x, ShortestDigits(x, size)) ELSE x

\* Format 'f': ddd, and .000 when a precision asks for decimals.
WriteF(shown, prec) ==
    CharsOf(shown) \o (IF prec > 0 THEN <<".">> \o CharsOf(Zeros(prec)) ELSE <<>>)

\* Format 'e': d.ddde+dd, sig being the digits without the trailing zeros.
WriteE(sig, exp) ==
    <<CharOf(sig[1])>>
        \o (IF Len(sig) > 1 THEN <<".">> \o CharsOf(SubSeq(sig, 2, Len(sig))) ELSE <<>>)
        \o <<"e", "+">> \o ExpChars(exp)

Write(shown, fmt, prec) ==
    IF fmt = "f" THEN WriteF(shown, prec) ELSE WriteE(TrimRight(shown), Len(shown) - 1)

\* strconv.FormatFloat(f, fmt, prec, bitSize) for an integer-valued f.
FormatFloat(f, fmt, prec, size) ==
    Write(Shown(RoundToFloat(f, size), prec, size), fmt, prec)

(***************************************************************************)
(* net/url: query escaping, as VerifyToken uses it through                 *)
(* url.Values.Set and url.Values.Encode                                    *)
(***************************************************************************)
Letters == {"a", "b", "c", "e", "k", "n", "o", "t", "x"}

\* The characters url.QueryEscape leaves alone.
IsUnreserved(c) == IsDigitChar(c) \/ c \in Letters \/ c \in {"-", "_", ".", "~"}

\* ASCII codes of the other characters the model uses.
AsciiCode ==
    [c \in {" ", "#", "%", "&", "+", "/", "=", "?"} |->
        CASE c = " " -> 32 [] c = "#" -> 35 [] c = "%" -> 37 [] c = "&" -> 38
          [] c = "+" -> 43 [] c = "/" -> 47 [] c = "=" -> 61 [] c = "?" -> 63]

upperhex ==
    <<"0", "1", "2", "3", "4", "5", "6", "7", "8", "9", "A", "B", "C", "D", "E", "F">>

IsHex(c) == \E i \in 1..16 : upperhex[i] = c

UnHex(c) == (CHOOSE i \in 1..16 : upperhex[i] = c) - 1

\* One character as url.QueryEscape writes it.
EscapeChar(c) ==
    IF IsUnreserved(c) THEN <<c>>
    ELSE IF c = " " THEN <<"+">>
    ELSE <<"%", upperhex[(AsciiCode[c] \div 16) + 1], upperhex[(AsciiCode[c] % 16) + 1]>>

RECURSIVE QueryEscape(_)
QueryEscape(s) ==
    IF s = <<>> THEN <<>> ELSE EscapeChar(Head(s)) \o QueryEscape(Tail(s))

RECURSIVE QueryUnescape(_)
\* url.QueryUnescape; a '%' that two hex digits do not follow is kept as it is
\* (the library reports an error there; the escaper never writes one).
QueryUnescape(s) ==
    IF s = <<>> THEN <<>>
    ELSE IF Head(s) = "+" THEN <<" ">> \o QueryUnescape(Tail(s))
    ELSE IF Head(s) = "%" /\ Len(s) >= 3 /\ IsHex(s[2]) /\ IsHex(s[3])
         /\ \E c \in DOMAIN AsciiCode : AsciiCode[c] = 16 * UnHex(s[2]) + UnHex(s[3])
    THEN <<CHOOSE c \in DOMAIN AsciiCode : AsciiCode[c] = 16 * UnHex(s[2]) + UnHex(s[3])>>
         \o QueryUnescape(SubSeq(s, 4, Len(s)))
    ELSE <<Head(s)>> \o QueryUnescape(Tail(s))

\* Position of the first c in s, or 0.
IndexOf(s, c) ==
    LET at == {i \in 1..Len(s) : s[i] = c}
    IN  IF at = {} THEN 0 ELSE CHOOSE i \in at : \A j \in at : i <= j

\* url.Values holding the single entry that Set(key, value) made.
ValuesSet(key, value) == <<[key |-> key, value |-> value]>>

RECURSIVE Encode(_)
\* url.Values.Encode: key=value pairs, both escaped, joined by '&'.
Encode(values) ==
    IF values = <<>> THEN <<>>
    ELSE QueryEscape(values[1].key) \o <<"=">> \o QueryEscape(values[1].value)
         \o (IF Len(values) > 1 THEN <<"&">> \o Encode(Tail(values)) ELSE <<>>)

\* The query component of a request path as url.Parse cuts it: what follows
\* the first '?' of the part before the first '#'.
RawQuery(p) ==
    LET h == IndexOf(p, "#")
        noFrag == IF h = 0 THEN p ELSE SubSeq(p, 1, h - 1)
        q == IndexOf(noFrag, "?")
    IN  IF q = 0 THEN <<>> ELSE SubSeq(noFrag, q + 1, Len(noFrag))

RECURSIVE ParseQuery(_)
\* url.ParseQuery: the key/value pairs of a query string, unescaped.
ParseQuery(q) ==
    IF q = <<>> THEN <<>>
    ELSE LET a == IndexOf(q, "&")
             piece == IF a = 0 THEN q ELSE SubSeq(q, 1, a - 1)
             rest == IF a = 0 THEN <<>> ELSE SubSeq(q, a + 1, Len(q))
             e == IndexOf(piece, "=")
             pair == [key |-> QueryUnescape(IF e = 0 THEN piece
                                             ELSE SubSeq(piece, 1, e - 1)),
                      value |-> QueryUnescape(IF e = 0 THEN <<>>
                                               ELSE SubSeq(piece, e + 1, Len(piece)))]
         IN  (IF piece = <<>> THEN <<>> ELSE <<pair>>) \o ParseQuery(rest)

(***************************************************************************)
(* Errors.  An error value is its message and, for fmt.Errorf, the         *)
(* argument formatted into it.                                             *)
(***************************************************************************)
NoError == [msg |-> "nil", arg |-> ""]

ErrRecipientRequired == [msg |-> "recipient is required", arg |-> ""]

ErrNilPointer == [msg |-> "cannot unmarshal to nil pointer", arg |-> ""]

ErrUnknownType(t) == [msg |-> "recipient is unknown type %T", arg |-> t]

ErrSyntax == [msg |-> "json: SyntaxError", arg |-> ""]

ErrUnmarshalType(field) == [msg |-> "json: UnmarshalTypeError", arg |-> field]

(***************************************************************************)
(* Request builder                                                         *)
(***************************************************************************)
\* The optional parameters; nil marks the nil *Params.
ParamFields ==
    {"Originator", "Reference", "Type", "Template", "DataCoding", "ReportURL",
     "Voice", "Language", "Timeout", "TokenLength", "Subject"}

IntFields == {"Timeout", "TokenLength"}

ZeroOf(f) == IF f \in IntFields THEN 0 ELSE <<>>

\* A nil *Params.
NilParams ==
    [nil |-> TRUE, Originator |-> <<>>, Reference |-> <<>>, Type |-> <<>>,
     Template |-> <<>>, DataCoding |-> <<>>, ReportURL |-> <<>>, Voice |-> <<>>,
     Language |-> <<>>, Timeout |-> 0, TokenLength |-> 0, Subject |-> <<>>]

\* A nil *verifyRequest.
NilRequest ==
    [nil |-> TRUE, Recipient |-> <<>>, Originator |-> <<>>, Reference |-> <<>>,
     Type |-> <<>>, Template |-> <<>>, DataCoding |-> <<>>, ReportURL |-> <<>>,
     Voice |-> <<>>, Language |-> <<>>, Timeout |-> 0, TokenLength |-> 0,
     Subject |-> <<>>]

\* &verifyRequest{Recipient: recipient}
NewRequest(recipient) == [NilRequest EXCEPT !.nil = FALSE, !.Recipient = recipient]

\* The assignments with one line copied and not edited: Reference gets the
\* originator.
CopyParamsSlip(request, params) ==
    [request EXCEPT !.Originator = params.Originator,
                    !.Reference = params.Originator,
                    !.Type = params.Type,
                    !.Template = params.Template,
                    !.DataCoding = params.DataCoding,
                    !.ReportURL = params.ReportURL,
                    !.Voice = params.Voice,
                    !.Language = params.Language,
                    !.Timeout = params.Timeout,
                    !.TokenLength = params.TokenLength,
                    !.Subject = params.Subject]

\* The eleven assignments request.X = params.X.
CopyParams(request, params) ==
    [request EXCEPT !.Originator = params.Originator,
                    !.Reference = params.Reference,
                    !.Type = params.Type,
                    !.Template = params.Template,
                    !.DataCoding = params.DataCoding,
                    !.ReportURL = params.ReportURL,
                    !.Voice = params.Voice,
                    !.Language = params.Language,
                    !.Timeout = params.Timeout,
                    !.TokenLength = params.TokenLength,
                    !.Subject = params.Subject]

\* requestDataForVerify without its check of the recipient.
requestDataForVerifyUnchecked(recipient, params) ==
    IF params.nil
    THEN [request |-> NewRequest(recipient), err |-> NoError, params |-> params]
    ELSE [request |-> CopyParams(NewRequest(recipient), params),
          err |-> NoError, params |-> params]

\* requestDataForVerify: the request, the error, and the Params object as the
\* call leaves it.
requestDataForVerify(recipient, params) ==
    IF recipient = <<>>
    THEN [request |-> NilRequest, err |-> ErrRecipientRequired, params |-> params]
    ELSE IF params.nil
    THEN [request |-> NewRequest(recipient), err |-> NoError, params |-> params]
    ELSE [request |-> CopyParams(NewRequest(recipient), params),
          err |-> NoError, params |-> params]

\* The json tags of verifyRequest: field -> key, and which keys omitempty drops.
JsonKey ==
    [f \in ParamFields \cup {"Recipient"} |->
        CASE f = "Recipient" -> "recipient" [] f = "Originator" -> "originator"
          [] f = "Reference" -> "reference" [] f = "Type" -> "type"
          [] f = "Template" -> "template" [] f = "DataCoding" -> "dataCoding"
          [] f = "ReportURL" -> "reportUrl" [] f = "Voice" -> "voice"
          [] f = "Language" -> "language" [] f = "Timeout" -> "timeout"
          [] f = "TokenLength" -> "tokenLength" [] f = "Subject" -> "subject"]

OmitEmpty(f) == f # "Recipient"

\* The JSON object encoding/json writes for a verifyRequest: key -> value.
Marshal(request) ==
    LET kept == {f \in DOMAIN JsonKey : ~(OmitEmpty(f) /\ request[f] = ZeroOf(f))}
    IN  [k \in {JsonKey[f] : f \in kept} |->
            request[CHOOSE f \in kept : JsonKey[f] = k]]

(***************************************************************************)
(* Response decoder                                                        *)
(*                                                                         *)
(* A payload is either not JSON at all (syntax = FALSE) or a JSON object   *)
(* of which the model keeps the members id, status and recipient; the      *)
(* other members of Verify (href, reference, messages, the two dates)      *)
(* decode like id and status.  A JSON value is its kind t and, for a       *)
(* string or a number, its text.                                           *)
(***************************************************************************)
Absent == [t |-> "absent", text |-> <<>>]

\* The zero Verify{} and the zero VerifyMessage{}.
ZeroVerify == [type |-> "Verify", ID |-> <<>>, Status |-> <<>>, Recipient |-> <<>>]

ZeroVerifyMessage ==
    [type |-> "VerifyMessage", ID |-> <<>>, Status |-> <<>>, Recipient |-> <<>>]

\* encoding/json storing a JSON value into a Go string field that holds old.
DecodeString(jv, old, field) ==
    IF jv.t = "string" THEN [val |-> jv.text, err |-> NoError]
    ELSE IF jv.t \in {"absent", "null"} THEN [val |-> old, err |-> NoError]
    ELSE [val |-> old, err |-> ErrUnmarshalType(field)]

\* encoding/json storing a JSON value into an empty interface{}: the dynamic
\* type it gets (the name %T prints) and the value; a number becomes a float64.
DecodeInterface(jv) ==
    CASE jv.t = "number" ->
            [type |-> "float64", str |-> <<>>, num |-> RoundToFloat(DigitsOf(jv.text), 64)]
      [] jv.t = "string" -> [type |-> "string", str |-> jv.text, num |-> <<>>]
      [] jv.t = "bool" -> [type |-> "bool", str |-> <<>>, num |-> <<>>]
      [] jv.t = "object" ->
            [type |-> "map[string]interface {}", str |-> <<>>, num |-> <<>>]
      [] jv.t = "array" -> [type |-> "[]interface {}", str |-> <<>>, num |-> <<>>]
      [] OTHER -> [type |-> "<nil>", str |-> <<>>, num |-> <<>>]

\* json.Unmarshal(b, &wrapper): wrapper embeds Alias (Verify without its
\* methods) and shadows its Recipient by one of type interface{}, which is the
\* one the member "recipient" is stored into.
UnmarshalWrapper(b) ==
    [wrapper |-> [Alias |-> [ZeroVerify EXCEPT
                                !.ID = DecodeString(b.id, <<>>, "ID").val,
                                !.Status = DecodeString(b.status, <<>>, "Status").val],
                  Recipient |-> DecodeInterface(b.recipient)],
     err |-> IF ~b.syntax THEN ErrSyntax
             ELSE IF DecodeString(b.id, <<>>, "ID").err # NoError
             THEN DecodeString(b.id, <<>>, "ID").err
             ELSE DecodeString(b.status, <<>>, "Status").err]

\* The format with an exponent.
withExponent == "e"

\* The constants of the float64 case.
noExponent == "f"

precision == -1

bitSize == 64

\* The guard left out.
NoNilGuard(v) == FALSE

\* if v == nil
NilGuard(v) == v.nil

\* The switch with %T given the string field and not the interface value.
RecipientOfWrongOperand(r) ==
    CASE r.type = "float64" ->
            [val |-> FormatFloat(r.num, noExponent, precision, bitSize), err |-> NoError]
      [] r.type = "string" -> [val |-> r.str, err |-> NoError]
      [] OTHER -> [val |-> <<>>, err |-> ErrUnknownType("string")]

\* The switch with a nil interface value taken for an empty recipient.
RecipientOfNilAccepted(r) ==
    CASE r.type = "float64" ->
            [val |-> FormatFloat(r.num, noExponent, precision, bitSize), err |-> NoError]
      [] r.type = "string" -> [val |-> r.str, err |-> NoError]
      [] r.type = "<nil>" -> [val |-> <<>>, err |-> NoError]
      [] OTHER -> [val |-> <<>>, err |-> ErrUnknownType(r.type)]

\* switch wrapper.Recipient.(type): the string for Alias.Recipient, or the
\* error of the default case.
RecipientOf(r) ==
    CASE r.type = "float64" ->
            [val |-> FormatFloat(r.num, noExponent, precision, bitSize), err |-> NoError]
      [] r.type = "string" -> [val |-> r.str, err |-> NoError]
      [] OTHER -> [val |-> <<>>, err |-> ErrUnknownType(r.type)]

\* *v = Verify(wrapper.Alias), Alias.Recipient being r.val: a store through v,
\* which panics when v is nil.
Assign(v, alias, r) ==
    IF r.err # NoError THEN [err |-> r.err, v |-> v, panic |-> FALSE]
    ELSE IF v.nil THEN [err |-> NoError, v |-> v, panic |-> TRUE]
    ELSE [err |-> NoError, v |-> [v EXCEPT !.obj = [alias EXCEPT !.Recipient = r.val]],
          panic |-> FALSE]

\* The body of UnmarshalJSON after json.Unmarshal(b, &wrapper) returned w.
Convert(v, w) ==
    IF w.err # NoError THEN [err |-> w.err, v |-> v, panic |-> FALSE]
    ELSE Assign(v, w.wrapper.Alias, RecipientOf(w.wrapper.Recipient))

\* (v *Verify) UnmarshalJSON(b).  v is the receiver: nil, or a pointer to the
\* object obj.  The result is the error returned, the receiver as the call
\* leaves it, and whether the call panicked.
UnmarshalJSON(v, b) ==
    IF NilGuard(v) THEN [err |-> ErrNilPointer, v |-> v, panic |-> FALSE]
    ELSE Convert(v, UnmarshalWrapper(b))

\* encoding/json decoding into a VerifyMessage by its tags id and status.
UnmarshalVerifyMessage(v, b) ==
    IF ~b.syntax THEN [err |-> ErrSyntax, v |-> v, panic |-> FALSE]
    ELSE [err |-> IF DecodeString(b.id, v.obj.ID, "id").err # NoError
                  THEN DecodeString(b.id, v.obj.ID, "id").err
                  ELSE DecodeString(b.status, v.obj.Status, "status").err,
          v |-> [v EXCEPT !.obj = [@ EXCEPT
                    !.ID = DecodeString(b.id, v.obj.ID, "id").val,
                    !.Status = DecodeString(b.status, v.obj.Status, "status").val]],
          panic |-> FALSE]

(***************************************************************************)
(* Inputs                                                                  *)
(***************************************************************************)
Phone1 == <<"3", "1", "6", "1", "2", "3", "4", "5", "6", "7", "8">>

Phone2 == <<"4", "9", "1", "5", "1", "2", "3", "4", "5", "6", "7", "8", "9">>

Phone3 == <<"1", "2", "3", "4", "5", "6", "7", "8", "9", "0", "1", "2", "3", "4", "5">>

Email == <<"a", "@", "b", ".", "c">>

\* Recipient arguments: the empty string, phone numbers, an e-mail address.
Recipients == {<<>>, Phone1, Email}

\* A Params with every field set, each to a value of its own.
FullParams ==
    [nil |-> FALSE, Originator |-> <<"M", "B">>, Reference |-> <<"r", "e", "f">>,
     Type |-> <<"s", "m", "s">>, Template |-> <<"t", "p", "l">>, DataCoding |-> <<"a", "u", "t", "o">>,
     ReportURL |-> <<"u", "r", "l">>, Voice |-> <<"m", "a", "l", "e">>, Language |-> <<"e", "n">>,
     Timeout |-> 30, TokenLength |-> 6, Subject |-> <<"c", "o", "d", "e">>]

\* A non-nil Params with no field set.
EmptyParams == [NilParams EXCEPT !.nil = FALSE]

\* nil, nothing set, everything set, exactly one field set, all but one set.
ParamsSet ==
    {NilParams, EmptyParams, FullParams}
        \cup {[EmptyParams EXCEPT ![f] = FullParams[f]] : f \in ParamFields}
        \cup {[FullParams EXCEPT ![f] = ZeroOf(f)] : f \in ParamFields}

\* Identifiers: plain ones, and ones holding a <<"u", "r", "l">> delimiter.
Ids == {<<"a", "b", "c">>, <<"x", "1">>, <<"a", "?", "b">>, <<"a", "#", "b">>}

Tokens == {<<"1", "2", "3", "4">>, <<"a", "&", "b">>, <<"a", "=", "b">>, <<"?">>, <<"#">>, <<" ">>, <<"/">>, <<"+", "%">>, <<>>}

JString(text) == [t |-> "string", text |-> text]

JNumber(text) == [t |-> "number", text |-> text]

JOther(t) == [t |-> t, text |-> <<>>]

\* Bytes that are not JSON.
Malformed == [syntax |-> FALSE, id |-> Absent, status |-> Absent, recipient |-> Absent]

\* The values a member recipient takes: a phone number as a JSON number or as
\* a JSON string, an address, and the kinds the decoder refuses.
RecipientValues ==
    {JNumber(n) : n \in {Phone1, Phone2, Phone3}}
        \cup {JString(r) : r \in {Phone1, Phone2, Phone3, Email, <<>>}}
        \cup {JOther(t) : t \in {"bool", "object", "array", "null"}}
        \cup {Absent}

\* The values a member of Go type string takes: absent, a string, and a
\* number, which violates the expected shape.
StringValues(text) == {Absent, JString(text), JNumber(<<"5">>)}

Payloads ==
    {Malformed}
        \cup [syntax : {TRUE}, id : StringValues(<<"a", "b", "c">>),
              status : StringValues(<<"s", "e", "n", "t">>), recipient : RecipientValues]

\* The payload of the documented scenario and its variants by recipient.
Scenario(r) == [syntax |-> TRUE, id |-> JString(<<"a", "b", "c">>), status |-> JString(<<"s", "e", "n", "t">>),
                recipient |-> r]

\* What the service answers in the runs of the operations.
Responses ==
    {Malformed, [Scenario(JNumber(Phone1)) EXCEPT !.id = JNumber(<<"5">>)]}
        \cup {Scenario(r) : r \in {JNumber(Phone1), JString(Phone1), JString(Email),
                                   JOther("bool"), JOther("null"), Absent}}

\* What Request reports when the exchange itself fails.
TransportErrors ==
    {[msg |-> "transport", arg |-> "timeout"], [msg |-> "transport", arg |-> "404"]}

\* A Verify that a caller has decoded into before.
UsedVerify == [type |-> "Verify", ID |-> <<"x", "1">>, Status |-> <<"o", "l", "d">>, Recipient |-> Phone2]

\* The inputs of the runs with concurrent invocations.
FewRecipients == {<<>>, Phone1}

FewParams == {NilParams, FullParams}

FewIds == {<<"a", "b", "c">>}

FewTokens == {<<"1", "2", "3", "4">>, <<"a", "&", "b">>}

FewResponses == {Scenario(JNumber(Phone1)), Scenario(JString(Email)), Scenario(Absent)}

FewErrors == {[msg |-> "transport", arg |-> "timeout"]}

(***************************************************************************)
(* The operations.  Each invocation i runs one operation: it builds its    *)
(* request and hands it to the client's Request, waits, and returns what   *)
(* the code makes of Request's answer.                                     *)
(***************************************************************************)
VARIABLES
    pc,      \* per invocation: "idle", "waiting" (inside Request) or "done"
    op,      \* per invocation: the operation it runs
    arg,     \* per invocation: its arguments
    target,  \* per invocation: its local verify / verifyMessage pointer (0 is nil)
    sent,    \* per invocation: the Request calls it has made, in order
    reply,   \* per invocation: what Request answered
    heap,    \* the objects allocated, by address
    ret      \* per invocation: what it returned

vars == <<pc, op, arg, target, sent, reply, heap, ret>>

Calls == 1..NumCalls

\* One object per invocation is all that is ever allocated.
Addr == 1..NumCalls

Free == [type |-> "free", ID |-> <<>>, Status |-> <<>>, Recipient |-> <<>>]

\* emailMessagesPath with a misspelt segment.
emailMessagesPathTypo == <<"v", "e", "r", "i", "f", "y", "/", "m", "e", "s", "s", "a", "g", "e", "/", "e", "m", "a", "i", "l">>

\* path and emailMessagesPath.
path == <<"v", "e", "r", "i", "f", "y">>

emailMessagesPath == path \o <<"/", "m", "e", "s", "s", "a", "g", "e", "s", "/", "e", "m", "a", "i", "l">>

\* The arguments of an invocation: those of the five operations, and for a
\* direct UnmarshalJSON the bytes b and the object old behind the receiver.
\* paramsAfter is the caller's Params object as Create leaves it.
NoArg == [recipient |-> <<>>, params |-> NilParams, paramsAfter |-> NilParams,
          id |-> <<>>, token |-> <<>>, b |-> Malformed, old |-> Free]

NoReply == [kind |-> "none", err |-> NoError, raw |-> Malformed]

NoReturn == [result |-> 0, err |-> NoError, panic |-> FALSE]

\* One object shared by every invocation, as a package-level variable is.
SharedObject(h) == 1

\* The address of a new object: one that no live object has.
New(h) == CHOOSE a \in Addr : h[a] = Free /\ \A x \in Addr : h[x] = Free => a <= x

\* One call c.Request(v, method, path, data).
Req(v, method, p, data) == [target |-> v, method |-> method, path |-> p, body |-> data]

Init ==
    /\ pc = [i \in Calls |-> "idle"]
    /\ op = [i \in Calls |-> "none"]
    /\ arg = [i \in Calls |-> NoArg]
    /\ target = [i \in Calls |-> 0]
    /\ sent = [i \in Calls |-> <<>>]
    /\ reply = [i \in Calls |-> NoReply]
    /\ heap = [a \in Addr |-> Free]
    /\ ret = [i \in Calls |-> NoReturn]

\* Invocation i enters Request with a new object of value zero as target.
Exchange(i, zero, method, p, data) ==
    LET a == New(heap)
    IN  /\ heap' = [heap EXCEPT ![a] = zero]
        /\ target' = [target EXCEPT ![i] = a]
        /\ sent' = [sent EXCEPT ![i] = Append(@, Req(a, method, p, data))]
        /\ pc' = [pc EXCEPT ![i] = "waiting"]
        /\ UNCHANGED <<reply, ret>>

\* Create(c, recipient, params)
Create(i, recipient, params) ==
    /\ pc[i] = "idle"
    /\ op' = [op EXCEPT ![i] = "Create"]
    /\ LET d == requestDataForVerify(recipient, params)
       IN  /\ arg' = [arg EXCEPT ![i] = [NoArg EXCEPT !.recipient = recipient,
                                                      !.params = params,
                                                      !.paramsAfter = d.params]]
           /\ IF d.err # NoError
              THEN /\ ret' = [ret EXCEPT ![i] = [NoReturn EXCEPT !.err = d.err]]
                   /\ pc' = [pc EXCEPT ![i] = "done"]
                   /\ UNCHANGED <<target, sent, reply, heap>>
              ELSE Exchange(i, ZeroVerify, "POST", path, d.request)

\* Delete(c, id)
Delete(i, id) ==
    /\ pc[i] = "idle"
    /\ op' = [op EXCEPT ![i] = "Delete"]
    /\ arg' = [arg EXCEPT ![i] = [NoArg EXCEPT !.id = id]]
    /\ sent' = [sent EXCEPT ![i] =
                    Append(@, Req(0, "DELETE", path \o <<"/">> \o id, NilRequest))]
    /\ pc' = [pc EXCEPT ![i] = "waiting"]
    /\ UNCHANGED <<target, reply, heap, ret>>

\* Read(c, id)
Read(i, id) ==
    /\ pc[i] = "idle"
    /\ op' = [op EXCEPT ![i] = "Read"]
    /\ arg' = [arg EXCEPT ![i] = [NoArg EXCEPT !.id = id]]
    /\ Exchange(i, ZeroVerify, "GET", path \o <<"/">> \o id, NilRequest)

\* pathWithParams with the token appended as it is.
PathWithRawToken(id, token) ==
    path \o <<"/">> \o id \o <<"?">> \o <<"t", "o", "k", "e", "n">> \o <<"=">> \o token

\* pathWithParams of VerifyToken.
PathWithParams(id, token) ==
    path \o <<"/">> \o id \o <<"?">> \o Encode(ValuesSet(<<"t", "o", "k", "e", "n">>, token))

\* VerifyToken(c, id, token)
VerifyToken(i, id, token) ==
    /\ pc[i] = "idle"
    /\ op' = [op EXCEPT ![i] = "VerifyToken"]
    /\ arg' = [arg EXCEPT ![i] = [NoArg EXCEPT !.id = id, !.token = token]]
    /\ Exchange(i, ZeroVerify, "GET", PathWithParams(id, token), NilRequest)

\* ReadVerifyEmailMessage(c, id)
ReadVerifyEmailMessage(i, id) ==
    /\ pc[i] = "idle"
    /\ op' = [op EXCEPT ![i] = "ReadVerifyEmailMessage"]
    /\ arg' = [arg EXCEPT ![i] = [NoArg EXCEPT !.id = id]]
    /\ Exchange(i, ZeroVerifyMessage, "GET", emailMessagesPath \o <<"/">> \o id,
                NilRequest)

\* The caller's pointer a and the object behind it after UnmarshalJSON gave u.
Unmarshalled(i, a, u) ==
    /\ target' = [target EXCEPT ![i] = a]
    /\ heap' = IF a = 0 THEN heap ELSE [heap EXCEPT ![a] = u.v.obj]
    /\ ret' = [ret EXCEPT ![i] = [result |-> a, err |-> u.err, panic |-> u.panic]]

\* A caller outside the package invokes v.UnmarshalJSON(b) itself, v being nil
\* (isNil) or a pointer to an object of value old.
Unmarshal(i, isNil, old, b) ==
    /\ pc[i] = "idle"
    /\ op' = [op EXCEPT ![i] = "UnmarshalJSON"]
    /\ arg' = [arg EXCEPT ![i] = [NoArg EXCEPT !.b = b,
                                                !.old = IF isNil THEN Free ELSE old]]
    /\ Unmarshalled(i, IF isNil THEN 0 ELSE New(heap),
                    UnmarshalJSON([nil |-> isNil, obj |-> old], b))
    /\ pc' = [pc EXCEPT ![i] = "done"]
    /\ UNCHANGED <<sent, reply>>

\* The tail with the half-decoded object returned beside the error.
ReturnedWithObject(o, v, err) ==
    IF o = "Delete" THEN [result |-> 0, err |-> err, panic |-> FALSE]
    ELSE [result |-> v, err |-> err, panic |-> FALSE]

\* What an operation returns once Request has returned err: the tail
\* "if err != nil { return nil, err }; return verify, nil", and for Delete
\* the error alone.
Returned(o, v, err) ==
    IF o = "Delete" THEN [result |-> 0, err |-> err, panic |-> FALSE]
    ELSE IF err # NoError THEN [result |-> 0, err |-> err, panic |-> FALSE]
    ELSE [result |-> v, err |-> NoError, panic |-> FALSE]

\* The client's decoding of a response body into the target of a request.
DecodeInto(v, raw) ==
    IF v.obj.type = "Verify" THEN UnmarshalJSON(v, raw)
    ELSE UnmarshalVerifyMessage(v, raw)

\* Request fails without a response to decode and returns e.
RequestFails(i, e) ==
    /\ pc[i] = "waiting"
    /\ reply' = [reply EXCEPT ![i] = [kind |-> "error", err |-> e, raw |-> Malformed]]
    /\ ret' = [ret EXCEPT ![i] = Returned(op[i], target[i], e)]
    /\ pc' = [pc EXCEPT ![i] = "done"]
    /\ UNCHANGED <<op, arg, target, sent, heap>>

\* The last request of a log.
Last(log) == log[Len(log)]

\* What decoding raw into the target of request r gives: nothing to do
\* without a target.
Decoded(r, raw, h) ==
    IF r.target = 0
    THEN [err |-> NoError, v |-> [nil |-> TRUE, obj |-> Free], panic |-> FALSE]
    ELSE DecodeInto([nil |-> FALSE, obj |-> h[r.target]], raw)

\* Request returns u.err to invocation i, the target of r holding u.v.
Answered(i, raw, r, u) ==
    /\ heap' = IF r.target = 0 THEN heap ELSE [heap EXCEPT ![r.target] = u.v.obj]
    /\ reply' = [reply EXCEPT ![i] = [kind |-> "response", err |-> u.err, raw |-> raw]]
    /\ ret' = [ret EXCEPT ![i] = Returned(op[i], target[i], u.err)]

\* Request receives the body raw, decodes it into the target of the request,
\* if it has one, and returns the decoder's error.
RequestReplies(i, raw) ==
    /\ pc[i] = "waiting"
    /\ Answered(i, raw, Last(sent[i]), Decoded(Last(sent[i]), raw, heap))
    /\ pc' = [pc EXCEPT ![i] = "done"]
    /\ UNCHANGED <<op, arg, target, sent>>

\* Concurrent invocations.
Next ==
    \E i \in Calls :
        \/ \E r \in FewRecipients, p \in FewParams : Create(i, r, p)
        \/ \E id \in FewIds : Delete(i, id)
        \/ \E id \in FewIds : Read(i, id)
        \/ \E id \in FewIds, t \in FewTokens : VerifyToken(i, id, t)
        \/ \E id \in FewIds : ReadVerifyEmailMessage(i, id)
        \/ \E n \in BOOLEAN, b \in FewResponses : Unmarshal(i, n, ZeroVerify, b)
        \/ \E e \in FewErrors : RequestFails(i, e)
        \/ \E raw \in FewResponses : RequestReplies(i, raw)

Spec == Init /\ [][Next]_vars

\* One invocation, over all the inputs.
NextOne ==
    \/ \E r \in Recipients, p \in ParamsSet : Create(1, r, p)
    \/ \E id \in Ids : Delete(1, id)
    \/ \E id \in Ids : Read(1, id)
    \/ \E id \in Ids, t \in Tokens : VerifyToken(1, id, t)
    \/ \E id \in Ids : ReadVerifyEmailMessage(1, id)
    \/ \E n \in BOOLEAN, old \in {ZeroVerify, UsedVerify}, b \in Payloads :
            Unmarshal(1, n, old, b)
    \/ \E e \in TransportErrors : RequestFails(1, e)
    \/ \E raw \in Responses : RequestReplies(1, raw)

SpecOne == Init /\ [][NextOne]_vars

(***************************************************************************)
(* Properties                                                              *)
(***************************************************************************)
Operations == {"Create", "Delete", "Read", "VerifyToken", "ReadVerifyEmailMessage"}

\* The operations whose result is a Verify.
VerifyOperations == {"Create", "Read", "VerifyToken"}

\* Invocation i has had a payload decoded into a Verify: by its own call of
\* UnmarshalJSON on a non-nil receiver, or by Request on a response.
HasDecoded(i) ==
    /\ pc[i] = "done"
    /\ \/ op[i] = "UnmarshalJSON" /\ target[i] # 0
       \/ op[i] \in VerifyOperations /\ reply[i].kind = "response"

PayloadOf(i) == IF op[i] = "UnmarshalJSON" THEN arg[i].b ELSE reply[i].raw

\* The object behind the receiver before the decoding.
Before(i) == IF op[i] = "UnmarshalJSON" THEN arg[i].old ELSE ZeroVerify

\* The payload is JSON and its members other than recipient have the types
\* of the schema.
OtherwiseWellFormed(b) == b.syntax /\ b.id.t # "number" /\ b.status.t # "number"

\* The Go string a well-typed member gives.
TextOf(jv) == IF jv.t = "string" THEN jv.text ELSE <<>>

PhoneNumbers == {Phone1, Phone2, Phone3}

\* The request of the table of operations, from the arguments alone.
TablePath(o, a) ==
    CASE o = "Create" -> <<"v", "e", "r", "i", "f", "y">>
      [] o = "Read" -> <<"v", "e", "r", "i", "f", "y", "/">> \o a.id
      [] o = "Delete" -> <<"v", "e", "r", "i", "f", "y", "/">> \o a.id
      [] o = "VerifyToken" -> <<"v", "e", "r", "i", "f", "y", "/">> \o a.id \o <<"?", "t", "o", "k", "e", "n", "=">> \o QueryEscape(a.token)
      [] o = "ReadVerifyEmailMessage" -> <<"v", "e", "r", "i", "f", "y", "/", "m", "e", "s", "s", "a", "g", "e", "s", "/", "e", "m", "a", "i", "l", "/">> \o a.id

TableMethod(o) ==
    CASE o = "Create" -> "POST"
      [] o = "Delete" -> "DELETE"
      [] o \in {"Read", "VerifyToken", "ReadVerifyEmailMessage"} -> "GET"

TableBody(o, a) ==
    IF o = "Create" THEN requestDataForVerify(a.recipient, a.params).request
    ELSE NilRequest

\* Invocation i reaches the transport.
Reaches(i) ==
    /\ pc[i] # "idle"
    /\ op[i] \in Operations
    /\ ~(op[i] = "Create" /\ arg[i].recipient = <<>>)

\* C1: a request never leaves with an empty recipient.  A Create with the
\* empty recipient, whatever its params, returns nil and the validation error
\* and calls Request zero times; every Request call of a Create carries a body
\* whose recipient is non-empty and is the recipient argument.
C1_RecipientRequired ==
    \A i \in Calls :
        op[i] = "Create" =>
            /\ arg[i].recipient = <<>> =>
                  /\ pc[i] = "done"
                  /\ ret[i].result = 0
                  /\ ret[i].err = ErrRecipientRequired
                  /\ sent[i] = <<>>
            /\ \A k \in 1..Len(sent[i]) :
                  /\ ~sent[i][k].body.nil
                  /\ sent[i][k].body.Recipient # <<>>
                  /\ sent[i][k].body.Recipient = arg[i].recipient

\* A Create with the empty recipient and non-nil params has returned.
C1_Witness ==
    \E i \in Calls :
        /\ op[i] = "Create" /\ pc[i] = "done"
        /\ arg[i].recipient = <<>> /\ ~arg[i].params.nil

\* C2: for a non-empty recipient r the builder succeeds; the request has
\* recipient r; with nil params its eleven optional fields are zero and its
\* serialized form holds the key recipient alone; with other params each
\* optional field is the same-named field of params, and a field is serialized
\* exactly when it is not zero; the Params passed in is left as it was.
C2_RequestCopiesParams ==
    \A i \in Calls :
        (op[i] = "Create" /\ arg[i].recipient # <<>>) =>
            /\ Len(sent[i]) = 1
            /\ LET body == sent[i][1].body
                   given == arg[i].params
               IN  /\ ~body.nil
                   /\ body.Recipient = arg[i].recipient
                   /\ \A f \in ParamFields :
                         body[f] = IF given.nil THEN ZeroOf(f) ELSE given[f]
                   /\ given.nil => DOMAIN Marshal(body) = {"recipient"}
                   /\ Marshal(body)["recipient"] = arg[i].recipient
                   /\ \A f \in ParamFields :
                         /\ (JsonKey[f] \in DOMAIN Marshal(body)) <=> (body[f] # ZeroOf(f))
                         /\ body[f] # ZeroOf(f) => Marshal(body)[JsonKey[f]] = given[f]
                   /\ arg[i].paramsAfter = given

\* A Create with every parameter set has handed its request to the transport.
C2_Witness ==
    \E i \in Calls :
        /\ op[i] = "Create" /\ arg[i].recipient = Phone1
        /\ arg[i].params = FullParams /\ Len(sent[i]) = 1

\* The payload with its recipient in the other of the two representations.
OtherRepresentation(b) ==
    [b EXCEPT !.recipient.t = IF @ = "number" THEN "string" ELSE "number"]

GoTypeName(t) ==
    CASE t = "bool" -> "bool"
      [] t = "object" -> "map[string]interface {}"
      [] t = "array" -> "[]interface {}"

C5_NilTarget ==
    \A i \in Calls :
        (op[i] = "UnmarshalJSON" /\ pc[i] = "done" /\ target[i] = 0) =>
            /\ ret[i] = [result |-> 0, err |-> ErrNilPointer, panic |-> FALSE]
            /\ heap = [a \in Addr |-> Free]

\* UnmarshalJSON was invoked on a nil receiver with bytes that are not JSON.
C5_Witness ==
    \E i \in Calls :
        /\ op[i] = "UnmarshalJSON" /\ pc[i] = "done" /\ target[i] = 0
        /\ arg[i].b = Malformed

\* C6: an operation that reaches the transport has made exactly one Request
\* call, with the method, path and body of the table, a target for its
\* result, and none for Delete; no operation ever makes a second call.
C6_OneRequestPerOperation ==
    \A i \in Calls :
        /\ Len(sent[i]) <= 1
        /\ Reaches(i) =>
              /\ Len(sent[i]) = 1
              /\ sent[i][1].method = TableMethod(op[i])
              /\ sent[i][1].path = TablePath(op[i], arg[i])
              /\ sent[i][1].body = TableBody(op[i], arg[i])
              /\ sent[i][1].body.nil <=> op[i] # "Create"
              /\ sent[i][1].target = target[i]
              /\ (target[i] = 0) <=> op[i] = "Delete"

\* ReadVerifyEmailMessage has returned after its one exchange failed.
C6_Witness ==
    \E i \in Calls :
        /\ op[i] = "ReadVerifyEmailMessage" /\ pc[i] = "done"
        /\ reply[i].kind = "error" /\ Len(sent[i]) = 1

\* C7: an operation returns the error of Request as it is, with a nil result,
\* and after one exchange only; when Request returns no error it returns no
\* error and, Delete apart, a non-nil result; Create returns the builder's
\* validation error as it is.
C7_ErrorsUnchanged ==
    \A i \in Calls :
        (op[i] \in Operations /\ pc[i] = "done") =>
            /\ Len(sent[i]) <= 1
            /\ reply[i].kind = "none" =>
                  /\ op[i] = "Create"
                  /\ ret[i].err = ErrRecipientRequired
                  /\ ret[i].result = 0
            /\ (reply[i].kind # "none" /\ reply[i].err # NoError) =>
                  /\ ret[i].err = reply[i].err
                  /\ ret[i].result = 0
            /\ (reply[i].kind # "none" /\ reply[i].err = NoError) =>
                  /\ ret[i].err = NoError
                  /\ op[i] # "Delete" => ret[i].result # 0
                  /\ op[i] = "Delete" => ret[i].result = 0

\* Read has returned after Request could not decode the response.
C7_Witness ==
    \E i \in Calls :
        /\ op[i] = "Read" /\ pc[i] = "done"
        /\ reply[i].kind = "response" /\ reply[i].err = ErrSyntax
        /\ ret[i].err = ErrSyntax

\* The one query parameter token = t.
OnlyToken(t) == <<[key |-> <<"t", "o", "k", "e", "n">>, value |-> t]>>

\* C8 as stated: for every id and every token the path of VerifyToken is
\* verify/id?token=escaped-token and its query string holds exactly one
\* parameter, token, whose decoded value is the token.
C8_AsStated ==
    \A i \in Calls :
        (op[i] = "VerifyToken" /\ pc[i] # "idle") =>
            /\ sent[i][1].path =
                  <<"v", "e", "r", "i", "f", "y", "/">> \o arg[i].id \o <<"?", "t", "o", "k", "e", "n", "=">> \o QueryEscape(arg[i].token)
            /\ ParseQuery(RawQuery(sent[i][1].path)) = OnlyToken(arg[i].token)

\* The id holds none of the delimiters '?' and '#'.
PlainId(id) == \A k \in 1..Len(id) : id[k] \notin {"?", "#"}

\* C8, amended: for every id and every token the path of VerifyToken is
\* verify/id?token=escaped-token; for every id without '?' and '#' its query
\* string holds exactly one parameter, token, whose decoded value is the
\* token; VerifyToken("abc", "1234") requests verify/abc?token=1234.
C8_TokenEscaped ==
    \A i \in Calls :
        (op[i] = "VerifyToken" /\ pc[i] # "idle") =>
            /\ sent[i][1].path =
                  <<"v", "e", "r", "i", "f", "y", "/">> \o arg[i].id \o <<"?", "t", "o", "k", "e", "n", "=">> \o QueryEscape(arg[i].token)
            /\ PlainId(arg[i].id) =>
                  ParseQuery(RawQuery(sent[i][1].path)) = OnlyToken(arg[i].token)
            /\ (arg[i].id = <<"a", "b", "c">> /\ arg[i].token = <<"1", "2", "3", "4">>) =>
                  sent[i][1].path = <<"v", "e", "r", "i", "f", "y", "/", "a", "b", "c", "?", "t", "o", "k", "e", "n", "=", "1", "2", "3", "4">>

\* VerifyToken was called with a plain id and a token holding '&'.
C8_Witness ==
    \E i \in Calls :
        /\ op[i] = "VerifyToken" /\ pc[i] # "idle"
        /\ arg[i].id = <<"a", "b", "c">> /\ arg[i].token = <<"a", "&", "b">>

\* What decoding its own response into a new object gives invocation i.
OwnDecoding(i) ==
    DecodeInto([nil |-> FALSE,
                obj |-> IF op[i] = "ReadVerifyEmailMessage" THEN ZeroVerifyMessage
                        ELSE ZeroVerify],
               reply[i].raw)

\* C9: under every interleaving, the request of an invocation is the one of
\* the table for its own arguments; what it returns follows from its own
\* arguments and the answer to its own request; its result object is its own:
\* no two invocations hold the same object, an object is zero until its own
\* response is decoded into it, and afterwards it holds the decoding of that
\* response.
C9_NoSharedState ==
    \A i \in Calls :
        /\ Reaches(i) =>
              sent[i] = <<Req(target[i], TableMethod(op[i]), TablePath(op[i], arg[i]),
                              TableBody(op[i], arg[i]))>>
        /\ \A j \in Calls \ {i} : target[i] # 0 => target[i] # target[j]
        /\ (pc[i] = "waiting" /\ target[i] # 0) =>
              heap[target[i]] = IF op[i] = "ReadVerifyEmailMessage"
                                THEN ZeroVerifyMessage ELSE ZeroVerify
        /\ (pc[i] = "done" /\ op[i] \in Operations /\ reply[i].kind = "error") =>
              ret[i] = [result |-> 0, err |-> reply[i].err, panic |-> FALSE]
        /\ (pc[i] = "done" /\ op[i] = "Delete" /\ reply[i].kind = "response") =>
              ret[i] = NoReturn
        /\ (/\ pc[i] = "done" /\ op[i] \in Operations \ {"Delete"}
            /\ reply[i].kind = "response") =>
              /\ ret[i].err = OwnDecoding(i).err
              /\ ret[i].result = IF ret[i].err = NoError THEN target[i] ELSE 0
              /\ heap[target[i]] = OwnDecoding(i).v.obj

\* Two invocations of different operations have both returned a result, each
\* decoded from a response of its own.
C9_Witness ==
    \E i, j \in Calls :
        /\ op[i] = "Create" /\ op[j] = "VerifyToken"
        /\ pc[i] = "done" /\ pc[j] = "done"
        /\ ret[i].result # 0 /\ ret[j].result # 0
        /\ reply[i].raw # reply[j].raw

\* C10: a payload otherwise well-formed whose recipient is absent or null
\* does not decode: the error is the unknown-type error for the dynamic type
\* nil, the Verify behind the receiver is as it was, and Create, Read and
\* VerifyToken return nil and that error, id and status present or not.
C10_MissingRecipient ==
    \A i \in Calls :
        (/\ HasDecoded(i)
         /\ OtherwiseWellFormed(PayloadOf(i))
         /\ PayloadOf(i).recipient.t \in {"absent", "null"}) =>
            /\ ret[i].err = ErrUnknownType("<nil>")
            /\ heap[target[i]] = Before(i)
            /\ op[i] \in VerifyOperations => ret[i].result = 0

\* Read was answered with id and status and no recipient.
C10_Witness ==
    \E i \in Calls :
        /\ op[i] = "Read" /\ pc[i] = "done" /\ reply[i].kind = "response"
        /\ reply[i].raw = Scenario(Absent)
        /\ ret[i].result = 0

====
